---- MODULE Spec2Model ----
(***************************************************************************)
(* One invocation of text_to_speech (elevenlabs_s3.py): the synthesis      *)
(* stream is drained into a BytesIO, the destinations are chosen from the  *)
(* output folder and the four AWS fields, and the payload is written to    *)
(* the local file system and/or uploaded to S3 and signed.                 *)
(*                                                                         *)
(* Python values: strings are TLA+ strings, None is the value None, bytes  *)
(* are sequences of naturals, a dict is a function on its keys.            *)
(* The collaborators (ElevenLabs transport, boto3, the file system) either *)
(* perform their effect or raise: both outcomes are enabled.               *)
(***************************************************************************)
EXTENDS Integers, Sequences, FiniteSets, TLC

\* ---------------------------------------------------------------- bounds
MaxChunks == 2

\* ------------------------------------------------------- python values
None == "<None>"

ExplicitVals == {None, "", "p"}
EnvVals == {None, "e"}
FolderVals == {None, "", "out"}
KwargsVals == {None, "clips"}
ChunkVals == {<<>>, <<1>>, <<2>>}

EmptyDict == [k \in {} |-> None]

\* no boto3 client built yet
NoS3Client == [aws_access_key_id |-> None, aws_secret_access_key |-> None,
               region_name |-> None]

\* Python truthiness of an Optional[str]
Truthy(v) == v # None /\ v # ""

\* variant: the environment value takes precedence over the argument
OrEnvFirst(a, b) == IF Truthy(b) THEN b ELSE a

\* Python `a or b`
Or(a, b) == IF Truthy(a) THEN a ELSE b

\* Python all([...]) over a set of values
All(vs) == \A v \in vs : Truthy(v)

\* os.path.join(folder, filename) for a folder without a trailing separator
PathJoin(folder, name) == IF folder = "" THEN name ELSE folder \o "/" \o name

\* str(uuid.uuid4()) : the n-th identifier drawn in the process
Uuid4(n) == "uuid" \o ToString(n)

\* f"{uuid.uuid4()}.mp3"
Mp3Name(n) == Uuid4(n) \o ".mp3"

\* ------------------------------------------------------------- BytesIO
NewBytesIO == [buf |-> <<>>, pos |-> 0]

BytesIOWrite(s, b) ==
    [buf |-> SubSeq(s.buf, 1, s.pos) \o b
               \o SubSeq(s.buf, s.pos + Len(b) + 1, Len(s.buf)),
     pos |-> s.pos + Len(b)]

\* variant: the position is left where it is
BytesIOSeekNone(s) == s

BytesIOSeek0(s) == [s EXCEPT !.pos = 0]

BytesIOGetValue(s) == s.buf

\* read() to the end from the current position
BytesIORead(s) == SubSeq(s.buf, s.pos + 1, Len(s.buf))

BytesIOAfterRead(s) == [s EXCEPT !.pos = Len(s.buf)]

\* ---------------------------------------------------------------- state
VARIABLES
    env,                    \* os.environ
    params,                 \* the arguments of the call
    pc,                     \* position in text_to_speech
    error,                  \* the exception leaving text_to_speech, or None
    client,                 \* ElevenLabs client (its api key), or None
    chunks,                 \* chunks of the response iterated so far
    audio_stream,           \* the BytesIO
    aws_s3_auth_provided,
    branch,                 \* which of the four branches of lines 191-282
    output_folder,          \* local variable (reassigned at line 276)
    aws_s3_bucket_name,     \* local variable (reassigned at 212 / 253)
    filename,
    s3_client,              \* boto3 session credentials (NoS3Client before)
    result,                 \* the dict built from line 189 on
    uuid_count,             \* uuid4() calls made so far
    dirs,                   \* directories of the file system
    fs,                     \* files of the file system: path -> bytes
    s3,                     \* objects in S3: <<bucket, key>> -> bytes
    calls                   \* calls made to the collaborators, in order

vars == <<env, params, pc, error, client, chunks, audio_stream,
          aws_s3_auth_provided, branch, output_folder, aws_s3_bucket_name,
          filename, s3_client, result, uuid_count, dirs, fs, s3, calls>>

\* the variables text_to_speech and its helpers read with os.getenv
EnvNames == {"ELEVENLABS_API_KEY", "AWS_ACCESS_KEY_ID",
             "AWS_SECRET_ACCESS_KEY", "AWS_REGION_NAME", "AWS_S3_BUCKET_NAME"}

\* a variable of the process environment that no os.getenv call names
UnreadEnvNames == {"OUTPUT_FOLDER"}

\* os.getenv(name)
Getenv(name) == env[name]

\* os.environ: the variables read, and the others left unset or not
Environ(unread) ==
    {e \in [EnvNames \cup UnreadEnvNames -> EnvVals] :
        \A n \in UnreadEnvNames : e[n] \in unread}

\* the arguments of a call; kwargs is what **kwargs holds for remote_folder
Arguments(kwargs) ==
    [output_folder : FolderVals,
     elevenlabs_api_key : ExplicitVals,
     aws_s3_bucket_name : ExplicitVals,
     aws_access_key_id : ExplicitVals,
     aws_secret_access_key : ExplicitVals,
     aws_region_name : ExplicitVals,
     remote_folder : kwargs]

\* entry of text_to_speech
Entry ==
    /\ pc = "start"
    /\ error = None
    /\ client = None
    /\ chunks = <<>>
    /\ audio_stream = NewBytesIO
    /\ aws_s3_auth_provided = FALSE
    /\ branch = None
    /\ output_folder = params.output_folder
    /\ aws_s3_bucket_name = params.aws_s3_bucket_name
    /\ filename = None
    /\ s3_client = NoS3Client
    /\ result = EmptyDict
    /\ uuid_count = 0
    /\ dirs = {"."}
    /\ fs = EmptyDict
    /\ s3 = EmptyDict
    /\ calls = <<>>

\* a call with the declared parameters only
Init ==
    /\ env \in Environ({None})
    /\ params \in Arguments({None})
    /\ Entry

\* a call that may also pass a remote_folder keyword
InitKwargs ==
    /\ env \in Environ({None})
    /\ params \in Arguments(KwargsVals)
    /\ Entry

\* a call in an environment that may also set a variable nobody reads
InitEnviron ==
    /\ env \in Environ(EnvVals)
    /\ params \in Arguments({None})
    /\ Entry

Raise(e) == pc' = "raised" /\ error' = e

\* ------------------------------------------------- get_elevenlabs_client
ResolvedApiKey == Or(params.elevenlabs_api_key, Getenv("ELEVENLABS_API_KEY"))

\* variant: the client is built without checking the key
GetElevenlabsClientUnchecked ==
    /\ pc = "start"
    /\ client' = ResolvedApiKey
    /\ pc' = "convert"
    /\ UNCHANGED <<env, params, error, chunks, audio_stream,
                   aws_s3_auth_provided, branch, output_folder,
                   aws_s3_bucket_name, filename, s3_client, result,
                   uuid_count, dirs, fs, s3, calls>>

GetElevenlabsClient ==
    /\ pc = "start"
    /\ IF ~Truthy(ResolvedApiKey)
         THEN /\ Raise("ValueError")
              /\ UNCHANGED client
         ELSE /\ client' = ResolvedApiKey
              /\ pc' = "convert"
              /\ UNCHANGED error
    /\ UNCHANGED <<env, params, chunks, audio_stream, aws_s3_auth_provided,
                   branch, output_folder, aws_s3_bucket_name, filename,
                   s3_client, result, uuid_count, dirs, fs, s3, calls>>

\* ---------------------------------------- client.text_to_speech.convert
ConvertCall(ok) ==
    [op |-> "convert", ok |-> ok, kwargs |-> params.remote_folder]

Convert ==
    /\ pc = "convert"
    /\ calls' = Append(calls, ConvertCall(TRUE))
    /\ audio_stream' = NewBytesIO
    /\ pc' = "drain"
    /\ UNCHANGED <<env, params, error, client, chunks, aws_s3_auth_provided,
                   branch, output_folder, aws_s3_bucket_name, filename,
                   s3_client, result, uuid_count, dirs, fs, s3>>

ConvertRaises ==
    /\ pc = "convert"
    /\ calls' = Append(calls, ConvertCall(FALSE))
    /\ Raise("ConvertError")
    /\ UNCHANGED <<env, params, client, chunks, audio_stream,
                   aws_s3_auth_provided, branch, output_folder,
                   aws_s3_bucket_name, filename, s3_client, result,
                   uuid_count, dirs, fs, s3>>

\* ------------------------------------------------- for chunk in response
WriteChunk(s, chunk) == IF chunk # <<>> THEN BytesIOWrite(s, chunk) ELSE s

ReadChunk ==
    /\ pc = "drain"
    /\ Len(chunks) < MaxChunks
    /\ \E chunk \in ChunkVals :
          /\ chunks' = Append(chunks, chunk)
          /\ audio_stream' = WriteChunk(audio_stream, chunk)
    /\ UNCHANGED <<env, params, pc, error, client, aws_s3_auth_provided,
                   branch, output_folder, aws_s3_bucket_name, filename,
                   s3_client, result, uuid_count, dirs, fs, s3, calls>>

\* ------------------------------- end of the stream: lines 177 to 193/243
\* variant: only the three credentials are checked, not the bucket
AuthProvidedNoBucket ==
    All({Or(params.aws_access_key_id, Getenv("AWS_ACCESS_KEY_ID")),
         Or(params.aws_secret_access_key, Getenv("AWS_SECRET_ACCESS_KEY")),
         Or(params.aws_region_name, Getenv("AWS_REGION_NAME"))})

AuthProvided ==
    All({Or(params.aws_access_key_id, Getenv("AWS_ACCESS_KEY_ID")),
         Or(params.aws_secret_access_key, Getenv("AWS_SECRET_ACCESS_KEY")),
         Or(params.aws_region_name, Getenv("AWS_REGION_NAME")),
         Or(params.aws_s3_bucket_name, Getenv("AWS_S3_BUCKET_NAME"))})

Route(folder, auth) ==
    IF Truthy(folder)
      THEN IF auth THEN "both" ELSE "local"
      ELSE IF auth THEN "s3" ELSE "default"

StreamEnd ==
    /\ pc = "drain"
    /\ audio_stream' = BytesIOSeek0(audio_stream)
    /\ aws_s3_auth_provided' = AuthProvided
    /\ result' = EmptyDict
    /\ branch' = Route(output_folder, AuthProvided)
    /\ pc' = IF Route(output_folder, AuthProvided) = "s3"
               THEN "s3_client" ELSE "save"
    /\ UNCHANGED <<env, params, error, client, chunks, output_folder,
                   aws_s3_bucket_name, filename, s3_client, uuid_count,
                   dirs, fs, s3, calls>>

\* variant: the exception of the iteration is logged and not re-raised
StreamRaisesSwallowed ==
    /\ pc = "drain"
    /\ error' = "StreamError"
    /\ audio_stream' = BytesIOSeek0(audio_stream)
    /\ aws_s3_auth_provided' = AuthProvided
    /\ result' = EmptyDict
    /\ branch' = Route(output_folder, AuthProvided)
    /\ pc' = IF Route(output_folder, AuthProvided) = "s3"
               THEN "s3_client" ELSE "save"
    /\ UNCHANGED <<env, params, client, chunks, output_folder,
                   aws_s3_bucket_name, filename, s3_client, uuid_count,
                   dirs, fs, s3, calls>>

\* the iteration of the response raises
StreamRaises ==
    /\ pc = "drain"
    /\ Raise("StreamError")
    /\ UNCHANGED <<env, params, client, chunks, audio_stream,
                   aws_s3_auth_provided, branch, output_folder,
                   aws_s3_bucket_name, filename, s3_client, result,
                   uuid_count, dirs, fs, s3, calls>>

\* ------------------------------------------------------- the local write
\* filename, filepath, makedirs, open(filepath, "wb").write(getvalue())
LocalWrite(folder, mkdirs, nextpc) ==
    LET name == Mp3Name(uuid_count + 1)
        path == PathJoin(folder, name)
    IN  /\ uuid_count' = uuid_count + 1
        /\ filename' = name
        /\ dirs' = IF mkdirs THEN dirs \cup {folder} ELSE dirs
        /\ fs' = (path :> BytesIOGetValue(audio_stream)) @@ fs
        /\ calls' = Append(calls, [op |-> "write", ok |-> TRUE, path |-> path,
                                   body |-> BytesIOGetValue(audio_stream)])
        /\ result' = ("file_path" :> path) @@ result
        /\ pc' = nextpc

SaveBoth ==
    /\ pc = "save" /\ branch = "both"
    /\ LocalWrite(output_folder, TRUE, "s3_client")
    /\ UNCHANGED <<env, params, error, client, chunks, audio_stream,
                   aws_s3_auth_provided, branch, output_folder,
                   aws_s3_bucket_name, s3_client, s3>>

SaveLocalOnly ==
    /\ pc = "save" /\ branch = "local"
    /\ LocalWrite(output_folder, TRUE, "returned")
    /\ UNCHANGED <<env, params, error, client, chunks, audio_stream,
                   aws_s3_auth_provided, branch, output_folder,
                   aws_s3_bucket_name, s3_client, s3>>

SaveDefault ==
    /\ pc = "save" /\ branch = "default"
    /\ output_folder' = "."
    /\ LocalWrite(".", FALSE, "returned")
    /\ UNCHANGED <<env, params, error, client, chunks, audio_stream,
                   aws_s3_auth_provided, branch, aws_s3_bucket_name,
                   s3_client, s3>>

\* os.makedirs or open/write raises OSError: nothing is written
LocalWriteFails ==
    /\ pc = "save"
    /\ uuid_count' = uuid_count + 1
    /\ filename' = Mp3Name(uuid_count + 1)
    /\ output_folder' = IF branch = "default" THEN "." ELSE output_folder
    /\ calls' = Append(calls,
                  [op |-> "write", ok |-> FALSE,
                   path |-> PathJoin(output_folder', Mp3Name(uuid_count + 1)),
                   body |-> BytesIOGetValue(audio_stream)])
    /\ Raise("OSError")
    /\ UNCHANGED <<env, params, client, chunks, audio_stream,
                   aws_s3_auth_provided, branch, aws_s3_bucket_name,
                   s3_client, result, dirs, fs, s3>>

\* ---------------------------------------------------------- get_s3_client
S3Credentials ==
    [aws_access_key_id |->
         Or(params.aws_access_key_id, Getenv("AWS_ACCESS_KEY_ID")),
     aws_secret_access_key |->
         Or(params.aws_secret_access_key, Getenv("AWS_SECRET_ACCESS_KEY")),
     region_name |->
         Or(params.aws_region_name, Getenv("AWS_REGION_NAME"))]

GetS3Client ==
    /\ pc = "s3_client"
    /\ IF ~All({S3Credentials.aws_access_key_id,
                S3Credentials.aws_secret_access_key,
                S3Credentials.region_name})
         THEN /\ Raise("ValueError")
              /\ UNCHANGED <<s3_client, aws_s3_bucket_name, filename,
                             uuid_count>>
         ELSE /\ s3_client' = S3Credentials
              /\ aws_s3_bucket_name' =
                    Or(aws_s3_bucket_name, Getenv("AWS_S3_BUCKET_NAME"))
              /\ IF branch = "s3"
                   THEN /\ uuid_count' = uuid_count + 1
                        /\ filename' = Mp3Name(uuid_count + 1)
                   ELSE UNCHANGED <<filename, uuid_count>>
              /\ pc' = "upload"
              /\ UNCHANGED error
    /\ UNCHANGED <<env, params, client, chunks, audio_stream,
                   aws_s3_auth_provided, branch, output_folder, result,
                   dirs, fs, s3, calls>>

\* -------------------------------------------- upload_audio_stream_to_s3
\* s3_file_name = filename  (lines 213, 255)
S3FileName == filename

UploadBody == BytesIORead(BytesIOSeek0(audio_stream))

Upload ==
    /\ pc = "upload"
    /\ audio_stream' = BytesIOAfterRead(BytesIOSeek0(audio_stream))
    /\ s3' = (<<aws_s3_bucket_name, S3FileName>> :> UploadBody) @@ s3
    /\ calls' = Append(calls, [op |-> "upload", ok |-> TRUE,
                               creds |-> s3_client,
                               bucket |-> aws_s3_bucket_name,
                               key |-> S3FileName, body |-> UploadBody])
    /\ pc' = "sign"
    /\ UNCHANGED <<env, params, error, client, chunks, aws_s3_auth_provided,
                   branch, output_folder, aws_s3_bucket_name, filename,
                   s3_client, result, uuid_count, dirs, fs>>

\* variant: a failed upload removes the local file
UploadFailsRollback ==
    /\ pc = "upload"
    /\ audio_stream' = BytesIOSeek0(audio_stream)
    /\ calls' = Append(calls, [op |-> "upload", ok |-> FALSE,
                               creds |-> s3_client,
                               bucket |-> aws_s3_bucket_name,
                               key |-> S3FileName, body |-> UploadBody])
    /\ fs' = EmptyDict
    /\ Raise("UploadError")
    /\ UNCHANGED <<env, params, client, chunks, aws_s3_auth_provided,
                   branch, output_folder, aws_s3_bucket_name, filename,
                   s3_client, result, uuid_count, dirs, s3>>

UploadFails ==
    /\ pc = "upload"
    /\ audio_stream' = BytesIOSeek0(audio_stream)
    /\ calls' = Append(calls, [op |-> "upload", ok |-> FALSE,
                               creds |-> s3_client,
                               bucket |-> aws_s3_bucket_name,
                               key |-> S3FileName, body |-> UploadBody])
    /\ Raise("UploadError")
    /\ UNCHANGED <<env, params, client, chunks, aws_s3_auth_provided,
                   branch, output_folder, aws_s3_bucket_name, filename,
                   s3_client, result, uuid_count, dirs, fs, s3>>

\* ------------------------------------------------ generate_presigned_url
ExpiresInDefault == 3600

\* variant: the bucket argument is signed without the environment fallback
SignCallUnresolvedBucket(ok, bucket, key, expires_in) ==
    [op |-> "sign", ok |-> ok, creds |-> s3_client,
     bucket |-> params.aws_s3_bucket_name, key |-> key,
     expires_in |-> expires_in]

SignCall(ok, bucket, key, expires_in) ==
    [op |-> "sign", ok |-> ok, creds |-> s3_client, bucket |-> bucket,
     key |-> key, expires_in |-> expires_in]

\* what boto3 returns for ("get_object", Bucket, Key, ExpiresIn)
PresignedUrl(bucket, key, expires_in) ==
    "https://" \o bucket \o "/" \o key \o "?X-Amz-Expires="
        \o ToString(expires_in)

\* variant: the result is assigned, not updated
SignReplacesResult ==
    /\ pc = "sign"
    /\ calls' = Append(calls, SignCall(TRUE, aws_s3_bucket_name, S3FileName,
                                       ExpiresInDefault))
    /\ result' =
         ( "s3_file_name" :> S3FileName
           @@ "s3_bucket_name" :> aws_s3_bucket_name
           @@ "s3_presigned_url" :>
                PresignedUrl(aws_s3_bucket_name, S3FileName, ExpiresInDefault) )
    /\ pc' = "returned"
    /\ UNCHANGED <<env, params, error, client, chunks, audio_stream,
                   aws_s3_auth_provided, branch, output_folder,
                   aws_s3_bucket_name, filename, s3_client, uuid_count,
                   dirs, fs, s3>>

Sign ==
    /\ pc = "sign"
    /\ calls' = Append(calls, SignCall(TRUE, aws_s3_bucket_name, S3FileName,
                                       ExpiresInDefault))
    /\ result' =
         ( "s3_file_name" :> S3FileName
           @@ "s3_bucket_name" :> aws_s3_bucket_name
           @@ "s3_presigned_url" :>
                PresignedUrl(aws_s3_bucket_name, S3FileName, ExpiresInDefault) )
         @@ result
    /\ pc' = "returned"
    /\ UNCHANGED <<env, params, error, client, chunks, audio_stream,
                   aws_s3_auth_provided, branch, output_folder,
                   aws_s3_bucket_name, filename, s3_client, uuid_count,
                   dirs, fs, s3>>

SignFails ==
    /\ pc = "sign"
    /\ calls' = Append(calls, SignCall(FALSE, aws_s3_bucket_name, S3FileName,
                                       ExpiresInDefault))
    /\ Raise("SignError")
    /\ UNCHANGED <<env, params, client, chunks, audio_stream,
                   aws_s3_auth_provided, branch, output_folder,
                   aws_s3_bucket_name, filename, s3_client, result,
                   uuid_count, dirs, fs, s3>>

\* ----------------------------------------------------------------- spec
Next ==
    \/ GetElevenlabsClient
    \/ Convert
    \/ ConvertRaises
    \/ ReadChunk
    \/ StreamRaises
    \/ StreamEnd
    \/ SaveBoth
    \/ SaveLocalOnly
    \/ SaveDefault
    \/ LocalWriteFails
    \/ GetS3Client
    \/ Upload
    \/ UploadFails
    \/ Sign
    \/ SignFails

Spec == Init /\ [][Next]_vars

SpecKwargs == InitKwargs /\ [][Next]_vars

SpecEnviron == InitEnviron /\ [][Next]_vars

\* =================================================== properties checked
RECURSIVE Concat(_)
\* the concatenation of a sequence of chunks, in order
Concat(cs) == IF cs = <<>> THEN <<>> ELSE Head(cs) \o Concat(Tail(cs))

CallsOf(o) == {i \in 1..Len(calls) : calls[i].op = o}

DoneCallsOf(o) == {i \in CallsOf(o) : calls[i].ok}

\* a field is present when the parameter or the environment gives a
\* non-empty value
Present(p, e) == (p # None /\ p # "") \/ (e # None /\ e # "")

\* explicit parameter, else environment, else absent
Resolve(p, e) ==
    IF p # None /\ p # "" THEN p ELSE IF e # None /\ e # "" THEN e ELSE None

LocalRequested == params.output_folder # None /\ params.output_folder # ""

RemoteRequested ==
    /\ Present(params.aws_access_key_id, env["AWS_ACCESS_KEY_ID"])
    /\ Present(params.aws_secret_access_key, env["AWS_SECRET_ACCESS_KEY"])
    /\ Present(params.aws_region_name, env["AWS_REGION_NAME"])
    /\ Present(params.aws_s3_bucket_name, env["AWS_S3_BUCKET_NAME"])

\* the destinations of the table of section 4.2
LocalActive == LocalRequested \/ ~RemoteRequested

RemoteActive == RemoteRequested

TableFolder == IF LocalRequested THEN params.output_folder ELSE "."

ApiKeyMissing ==
    ~Present(params.elevenlabs_api_key, env["ELEVENLABS_API_KEY"])

\* C1: the destinations written are exactly those of the routing table:
\* a local write is attempted only when the folder is present or the remote
\* group is incomplete, and goes to the given folder or to "."; an upload is
\* attempted only when all four remote fields are present; a returned
\* invocation has written exactly the active destinations; and an incomplete
\* remote group with no folder raises no configuration error.
C1_RoutingTable ==
    /\ \A i \in CallsOf("write") :
          LocalActive /\ calls[i].path = TableFolder \o "/" \o filename
    /\ \A i \in CallsOf("upload") : RemoteActive
    /\ pc = "returned" =>
          /\ LocalActive <=> DOMAIN fs # {}
          /\ RemoteActive <=> DOMAIN s3 # {}
          /\ LocalActive <=> DoneCallsOf("write") # {}
          /\ RemoteActive <=> DoneCallsOf("upload") # {}
    /\ (~LocalRequested /\ ~RemoteRequested /\ ~ApiKeyMissing) =>
          error \in {None, "ConvertError", "StreamError", "OSError"}

\* the remote group lacks the region only, no folder: the file is in "."
C1_Witness ==
    /\ pc = "returned"
    /\ ~LocalRequested
    /\ Present(params.aws_access_key_id, env["AWS_ACCESS_KEY_ID"])
    /\ Present(params.aws_secret_access_key, env["AWS_SECRET_ACCESS_KEY"])
    /\ Present(params.aws_s3_bucket_name, env["AWS_S3_BUCKET_NAME"])
    /\ ~Present(params.aws_region_name, env["AWS_REGION_NAME"])
    /\ DOMAIN fs = {"./" \o filename}
    /\ DOMAIN s3 = {}

\* C2: a failure of the synthesis transport (convert raises, or the chunk
\* stream raises after any number of chunks) ends the invocation with the
\* error and with no file, no object and no sign call; no destination call
\* is made before the stream has been drained.
C2_TransportFailureWritesNothing ==
    /\ error \in {"ConvertError", "StreamError"} =>
          /\ pc = "raised"
          /\ DOMAIN fs = {} /\ DOMAIN s3 = {}
          /\ CallsOf("write") \cup CallsOf("upload") \cup CallsOf("sign") = {}
          /\ DOMAIN result = {}
    /\ pc \in {"start", "convert", "drain"} =>
          /\ DOMAIN fs = {} /\ DOMAIN s3 = {}
          /\ CallsOf("write") \cup CallsOf("upload") \cup CallsOf("sign") = {}

\* the stream raised after a non-empty chunk had been buffered
C2_Witness ==
    /\ pc = "raised" /\ error = "StreamError"
    /\ Len(chunks) >= 1 /\ audio_stream.buf # <<>>
    /\ LocalActive

\* C3: no rollback, no retry: with both destinations active, a failed upload
\* or sign leaves the local file with the full payload, the failing call was
\* made once, and the invocation raised; a failed sign leaves the uploaded
\* object in place.
C3_NoRollbackNoRetry ==
    error \in {"UploadError", "SignError"} =>
       /\ pc = "raised"
       /\ Cardinality(CallsOf("upload")) = 1
       /\ branch = "both" =>
             /\ PathJoin(params.output_folder, filename) \in DOMAIN fs
             /\ fs[PathJoin(params.output_folder, filename)] = Concat(chunks)
       /\ error = "UploadError" =>
             /\ CallsOf("sign") = {}
             /\ DOMAIN s3 = {}
       /\ error = "SignError" =>
             /\ Cardinality(CallsOf("sign")) = 1
             /\ <<aws_s3_bucket_name, filename>> \in DOMAIN s3
             /\ s3[<<aws_s3_bucket_name, filename>>] = Concat(chunks)

\* both destinations, the upload failed after a non-empty local write
C3_Witness ==
    /\ error = "UploadError" /\ branch = "both"
    /\ Concat(chunks) # <<>>
    /\ DOMAIN fs # {}

ResultKeysS3 == {"s3_file_name", "s3_bucket_name", "s3_presigned_url"}

\* C4: a returned result has file_path or s3_file_name; both when both
\* destinations were active; the three remote fields together or not at
\* all; a field is populated exactly when its destination was active and
\* its write completed in this invocation.
C4_ResultShape ==
    pc = "returned" =>
       /\ "file_path" \in DOMAIN result \/ "s3_file_name" \in DOMAIN result
       /\ (LocalActive /\ RemoteActive) =>
             {"file_path", "s3_file_name"} \subseteq DOMAIN result
       /\ \/ ResultKeysS3 \subseteq DOMAIN result
          \/ ResultKeysS3 \cap DOMAIN result = {}
       /\ "file_path" \in DOMAIN result <=> LocalActive
       /\ "s3_file_name" \in DOMAIN result <=> RemoteActive
       /\ "file_path" \in DOMAIN result =>
             /\ result["file_path"] \in DOMAIN fs
             /\ \E i \in DoneCallsOf("write") :
                   calls[i].path = result["file_path"]
       /\ "s3_file_name" \in DOMAIN result =>
             /\ <<result["s3_bucket_name"], result["s3_file_name"]>>
                   \in DOMAIN s3
             /\ \E i \in DoneCallsOf("upload") :
                   /\ calls[i].key = result["s3_file_name"]
                   /\ calls[i].bucket = result["s3_bucket_name"]
             /\ \E i \in DoneCallsOf("sign") :
                   /\ calls[i].key = result["s3_file_name"]
                   /\ calls[i].bucket = result["s3_bucket_name"]

\* a result of an invocation with both destinations
C4_Witness ==
    /\ pc = "returned"
    /\ LocalActive /\ RemoteActive
    /\ DOMAIN result = {"file_path"} \cup ResultKeysS3

\* C5: the bytes written locally and the bytes uploaded are the
\* concatenation, in arrival order, of the chunks received (empty chunks
\* contribute nothing), so the file and the object are byte-identical.
C5_PayloadIsConcatenation ==
    /\ \A i \in CallsOf("write") \cup CallsOf("upload") :
          calls[i].body = Concat(chunks)
    /\ \A path \in DOMAIN fs : fs[path] = Concat(chunks)
    /\ \A o \in DOMAIN s3 : s3[o] = Concat(chunks)
    /\ \A path \in DOMAIN fs : \A o \in DOMAIN s3 : fs[path] = s3[o]

\* both destinations written, an empty chunk before a non-empty one
C5_Witness ==
    /\ pc = "returned" /\ branch = "both"
    /\ Len(chunks) = 2 /\ chunks[1] = <<>> /\ chunks[2] # <<>>
    /\ DOMAIN fs # {} /\ DOMAIN s3 # {}

\* C6: the key uploaded and returned is remote_folder/name.mp3 when a remote
\* folder is configured and name.mp3 when none is, name being the
\* identifier of the local file name.
C6_RemoteKeyUsesFolder ==
    \A i \in CallsOf("upload") :
       calls[i].key =
          IF params.remote_folder # None
            THEN params.remote_folder \o "/" \o filename
            ELSE filename

\* C7: every returned result carries a correlation identifier, that is an
\* entry besides the local path and the three remote fields.
C7_ResultCarriesCorrelationId ==
    pc = "returned" => DOMAIN result \ ({"file_path"} \cup ResultKeysS3) # {}

ResolvedCreds ==
    [aws_access_key_id |->
         Resolve(params.aws_access_key_id, env["AWS_ACCESS_KEY_ID"]),
     aws_secret_access_key |->
         Resolve(params.aws_secret_access_key, env["AWS_SECRET_ACCESS_KEY"]),
     region_name |->
         Resolve(params.aws_region_name, env["AWS_REGION_NAME"])]

ResolvedBucket ==
    Resolve(params.aws_s3_bucket_name, env["AWS_S3_BUCKET_NAME"])

\* the upload and the sign call use the resolved credentials and bucket,
\* and these decided that the remote destination is active
RemoteFieldsResolved ==
    /\ \A i \in CallsOf("upload") \cup CallsOf("sign") :
          /\ calls[i].creds = ResolvedCreds
          /\ calls[i].bucket = ResolvedBucket
          /\ RemoteRequested
    /\ pc \notin {"start", "convert", "drain"} /\ error \notin
          {"ValueError", "ConvertError", "StreamError"} =>
          aws_s3_auth_provided =
             /\ ResolvedCreds.aws_access_key_id # None
             /\ ResolvedCreds.aws_secret_access_key # None
             /\ ResolvedCreds.region_name # None
             /\ ResolvedBucket # None

\* the local write goes to the folder resolved from the parameter and the
\* environment value e, when that is present
LocalFolderResolved(e) ==
    \A i \in CallsOf("write") :
       LET folder == Resolve(params.output_folder, e)
       IN  calls[i].path =
              (IF folder # None THEN folder ELSE ".") \o "/" \o filename

\* C8 as stated: every destination field, the local folder included,
\* resolves to the parameter, else to the environment value, else absent,
\* and the upload and the sign call use the resolved values.
C8_EveryFieldFallsBackToEnv ==
    /\ RemoteFieldsResolved
    /\ LocalFolderResolved(env["OUTPUT_FOLDER"])

\* C8 amended: each of the four remote fields resolves to the non-empty
\* parameter, else to the environment value, else absent; the upload and
\* the sign call use exactly these values, which are those that decided
\* that the remote destination is active; the local folder is the non-empty
\* parameter or absent, whatever the environment holds.
C8_RemoteFieldsResolve ==
    /\ RemoteFieldsResolved
    /\ LocalFolderResolved(None)

\* the access key is given both ways (the parameter wins), the bucket comes
\* from the environment, the region parameter is the empty string
C8_Witness ==
    /\ pc = "returned"
    /\ params.aws_access_key_id = "p" /\ env["AWS_ACCESS_KEY_ID"] = "e"
    /\ params.aws_s3_bucket_name = None /\ env["AWS_S3_BUCKET_NAME"] = "e"
    /\ params.aws_region_name = "" /\ env["AWS_REGION_NAME"] = "e"
    /\ \E i \in DoneCallsOf("upload") :
          /\ calls[i].bucket = "e"
          /\ calls[i].creds.aws_access_key_id = "p"
          /\ calls[i].creds.region_name = "e"

\* C9: with the synthesis API key missing from the parameter and from the
\* environment, the invocation raises the configuration error and makes no
\* call at all: no convert, no storage client, no file, no object.
C9_MissingApiKeyFailsFirst ==
    ApiKeyMissing =>
       /\ pc \in {"start", "raised"}
       /\ pc = "raised" => error = "ValueError"
       /\ calls = <<>>
       /\ s3_client = NoS3Client
       /\ DOMAIN fs = {} /\ DOMAIN s3 = {}

\* the key is missing although both destinations are configured
C9_Witness ==
    /\ ApiKeyMissing /\ pc = "raised" /\ error = "ValueError"
    /\ LocalRequested /\ RemoteRequested

OpRank(o) ==
    CASE o = "convert" -> 1 [] o = "write" -> 2 [] o = "upload" -> 3
      [] o = "sign" -> 4

\* C10: the calls of an invocation are made in the order convert, local
\* write, upload, sign, each at most once and none before the stream is
\* drained; a sign call directly follows a successful upload and names its
\* bucket and key, with a TTL of 3600 seconds.
C10_CallOrder ==
    /\ \A i, j \in 1..Len(calls) :
          i < j => /\ OpRank(calls[i].op) < OpRank(calls[j].op)
                   /\ calls[i].ok
    /\ \A j \in CallsOf("sign") :
          /\ j > 1
          /\ calls[j - 1].op = "upload"
          /\ calls[j - 1].ok
          /\ calls[j].bucket = calls[j - 1].bucket
          /\ calls[j].key = calls[j - 1].key
          /\ calls[j].creds = calls[j - 1].creds
          /\ calls[j].expires_in = 3600
    /\ Len(calls) > 1 => pc \notin {"start", "convert", "drain"}

\* convert, write, upload and sign were all made
C10_Witness ==
    /\ pc = "returned"
    /\ Len(calls) = 4
    /\ calls[4].op = "sign"

TypeOK ==
    /\ pc \in {"start", "convert", "drain", "save", "s3_client", "upload",
               "sign", "returned", "raised"}
    /\ Len(chunks) <= MaxChunks
    /\ audio_stream.pos <= Len(audio_stream.buf)
====
